---- MODULE Spec2Model ----
(***************************************************************************)
(* A model of whats_cooking_good_looking/train_ner_workflow.py: the Flyte  *)
(* tasks evaluate_ner, format_tasks_for_train and load_model, and the      *)
(* workflow main with its gate train_model_if_necessary and train_model.   *)
(*                                                                         *)
(* JSON objects (Python dicts) are functions from their keys, so a key     *)
(* that is absent is absent from DOMAIN and a lookup of it is a KeyError.  *)
(* JSON arrays (Python lists) are sequences.  A quotient of two integers   *)
(* is the pair <<numerator, denominator>>, compared by cross products.     *)
(***************************************************************************)
EXTENDS Integers, Sequences, FiniteSets, TLC

VARIABLES
    op,          \* the entry point that was invoked ("idle" before any)
    pc,          \* the position in it: "idle", a step of main, "done", "fault"
    tasks,       \* the parsed annotation batch the entry point was given
    args,        \* load_model's arguments
    model_hits,  \* evaluate_ner: the hit counter per model
    model_acc,   \* evaluate_ner: the returned mapping model -> accuracy
    train_data,  \* format_tasks_for_train: the returned training examples
    nlp,         \* load_model / train_model: the model in hand
    lookups,     \* load_model: how many times SPACY_MODEL was indexed
    fault,       \* the uncaught exception that ended the call, or "none"
    calls,       \* main: the steps begun so far, in order
    iteration,   \* train_model: training iterations completed
    uploads      \* the artifacts written to storage by upload_to_gcs

vars == <<op, pc, tasks, args, model_hits, model_acc, train_data, nlp,
          lookups, fault, calls, iteration, uploads>>

(***************************************************************************)
(* Bounds of the model.                                                    *)
(***************************************************************************)
MaxTasks == 2

(***************************************************************************)
(* Program constants.                                                      *)
(***************************************************************************)
\* THRESHOLD_ACCURACY = 0.7, as the quotient 7 / 10
ThresholdNum == 7
ThresholdDen == 10
\* training_iterations=30 at the call of train_model
TrainingIterations == 30
\* SPACY_MODEL = {"en": "en_core_web_sm"}
SPACY_MODEL == [en |-> "en_core_web_sm"]

(***************************************************************************)
(* The input universe: Label Studio records.                               *)
(***************************************************************************)
Models == {"dummy", "m1"}

A_LOC == [start |-> 10, end |-> 17, text |-> "Chennai", labels |-> <<"LOC">>]
A_ORG == [start |-> 0, end |-> 5, text |-> "Flyte", labels |-> <<"ORG">>]
A_LOC_ID == [id |-> "wcgl1", start |-> 10, end |-> 17, text |-> "Chennai",
             labels |-> <<"LOC">>]
A_MULTI == [start |-> 20, end |-> 27, text |-> "Product", labels |-> <<"ORG", "PRODUCT">>]
A_NOLABEL == [start |-> 30, end |-> 33, text |-> "the", labels |-> <<>>]
\* the JSON value null (Python None) as a prediction payload
JsonNull == [json_null |-> TRUE]

Ent(value) == [value |-> value]
Pred(model_version, result) == [model_version |-> model_version, result |-> result]
\* a prediction record that carries no "result" key at all
PredNoResult(model_version) == [model_version |-> model_version]

LsTask(result, predictions, text) ==
    [result |-> result, predictions |-> predictions,
     task |-> [data |-> [text |-> text]]]
\* a record without the "task" key (the shape of evaluate_ner's docstring)
LsTaskNoText(result, predictions) ==
    [result |-> result, predictions |-> predictions]

PredictionLists ==
    { <<>>,
      <<Pred("dummy", A_LOC)>>,
      <<Pred("dummy", A_ORG)>>,
      <<Pred("m1", A_LOC)>>,
      <<Pred("dummy", A_LOC), Pred("m1", A_ORG)>>,
      <<Pred("m1", A_LOC), Pred("m1", A_LOC)>>,
      <<PredNoResult("m1"), Pred("dummy", A_LOC)>>,
      <<Pred("m1", JsonNull), Pred("dummy", A_LOC)>> }

EvalTasks ==
    { LsTask(r, p, "Leaving Chennai") :
        r \in { <<Ent(A_LOC)>>, <<Ent(A_LOC_ID)>>, <<>> }, p \in PredictionLists }

ResultLists ==
    { <<>>,
      <<Ent(A_NOLABEL)>>,
      <<Ent(A_LOC)>>,
      <<Ent(A_MULTI)>>,
      <<Ent(A_LOC), Ent(A_MULTI)>>,
      <<Ent(A_MULTI), Ent(A_NOLABEL), Ent(A_ORG)>> }

FormatTasks ==
    { LsTask(r, <<>>, t) : r \in ResultLists, t \in {"Leaving Chennai", "Flyte"} }
    \cup { LsTaskNoText(r, <<>>) : r \in ResultLists }

MainTasks ==
    { LsTask(<<Ent(A_LOC)>>, <<Pred("dummy", A_LOC)>>, "Leaving Chennai"),
      LsTask(<<Ent(A_LOC)>>, <<Pred("dummy", A_ORG)>>, "Leaving Chennai"),
      LsTask(<<Ent(A_NOLABEL)>>, <<Pred("dummy", A_NOLABEL)>>, "the"),
      LsTask(<<Ent(A_LOC), Ent(A_MULTI)>>, <<Pred("m1", A_LOC)>>, "Flyte"),
      LsTaskNoText(<<Ent(A_LOC)>>, <<Pred("dummy", A_LOC)>>) }

\* every batch of at most MaxTasks records of U
Batches(U) == UNION { [1..n -> U] : n \in 0..MaxTasks }

(***************************************************************************)
(* len(tasks) of the serialized batch: the number of characters of its     *)
(* json.dumps rendering (separators ", " and ": ").                        *)
(***************************************************************************)
RECURSIVE DigitsLen(_)
DigitsLen(n) == IF n < 10 THEN 1 ELSE 1 + DigitsLen(n \div 10)

StrLen(s) == Len(s) + 2

RECURSIVE JoinLen(_, _)
\* the length of a list or dict body whose items have the lengths in seq
JoinLen(lens, k) ==
    IF k > Len(lens) THEN 0
    ELSE lens[k] + (IF k < Len(lens) THEN 2 ELSE 0) + JoinLen(lens, k + 1)

ListLen(lens) == 2 + JoinLen(lens, 1)

ItemLen(key, valueLen) == StrLen(key) + 2 + valueLen

FieldLen(d, key) ==
    ItemLen(key,
        CASE key = "start" -> DigitsLen(d[key])
          [] key = "end" -> DigitsLen(d[key])
          [] key = "labels" -> ListLen([k \in DOMAIN d[key] |-> StrLen(d[key][k])])
          [] key = "json_null" -> 0
          [] OTHER -> StrLen(d[key]))

RECURSIVE FieldsLen(_, _)
FieldsLen(d, keys) ==
    IF keys = {} THEN 0
    ELSE LET key == CHOOSE x \in keys : TRUE
         IN FieldLen(d, key) + (IF keys = {key} THEN 0 ELSE 2)
            + FieldsLen(d, keys \ {key})

PayloadLen(v) == IF v = JsonNull THEN 4 ELSE 2 + FieldsLen(v, DOMAIN v)

PredictionLen(p) ==
    2 + ItemLen("model_version", StrLen(p.model_version))
      + (IF "result" \in DOMAIN p THEN 2 + ItemLen("result", PayloadLen(p.result)) ELSE 0)

LsTaskLen(t) ==
    2 + ItemLen("result",
            ListLen([k \in DOMAIN t.result |->
                        2 + ItemLen("value", PayloadLen(t.result[k].value))]))
      + 2 + ItemLen("predictions",
            ListLen([k \in DOMAIN t.predictions |-> PredictionLen(t.predictions[k])]))
      + (IF "task" \in DOMAIN t
         THEN 2 + ItemLen("task", 2 + ItemLen("data", 2 + ItemLen("text", StrLen(t.task.data.text))))
         ELSE 0)

SerializedLen(batch) == ListLen([k \in DOMAIN batch |-> LsTaskLen(batch[k])])

(***************************************************************************)
(* evaluate_ner                                                            *)
(***************************************************************************)
\* a variant that would pre-register every known model with zero hits
InitModelHits_Mut == [m \in Models |-> 0]

\* model_hits = defaultdict(int): no key yet
InitModelHits == [m \in {} |-> 0]

\* defaultdict(int).__getitem__: a key never set reads as int() = 0
HitsOf(hits, m) == IF m \in DOMAIN hits THEN hits[m] ELSE 0

\* a variant that would only touch the counter on a match
AddHit_Mut(hits, m, n) ==
    IF n = 0 THEN hits
    ELSE [k \in DOMAIN hits \cup {m} |-> HitsOf(hits, k) + (IF k = m THEN n ELSE 0)]

\* model_hits[m] += n: the key exists afterwards, also when n = 0
AddHit(hits, m, n) ==
    [k \in DOMAIN hits \cup {m} |-> HitsOf(hits, k) + (IF k = m THEN n ELSE 0)]

\* dict.pop("id")
PopId(d) == [k \in DOMAIN d \ {"id"} |-> d[k]]

\* for key in annotation_result: if key == "id": annotation_result.pop("id")
\* The pop changes the size of the dict that is being iterated; the dict
\* iterator checks the size before it yields or stops, so whichever place
\* "id" has among the keys the loop ends in RuntimeError ("dictionary changed
\* size during iteration").  A dict without "id" is iterated unchanged.
StripId(annotation_result) ==
    IF "id" \in DOMAIN annotation_result
    THEN [fault |-> "RuntimeError", value |-> PopId(annotation_result)]
    ELSE [fault |-> "none", value |-> annotation_result]

\* int(prediction["result"] == annotation_result)
Hit(result, annotation_result) == IF result = annotation_result THEN 1 ELSE 0

\* the body of `for prediction in ls_task["predictions"]`.  The augmented
\* assignment reads model_hits[model_version] first (which creates the key),
\* then evaluates the right-hand side, where a record without "result" is a
\* KeyError.
EvalPrediction(st, prediction, annotation_result) ==
    IF "model_version" \notin DOMAIN prediction
    THEN [st EXCEPT !.fault = "KeyError"]
    ELSE LET model_version == prediction.model_version
         IN IF "result" \notin DOMAIN prediction
            THEN [fault |-> "KeyError",
                  model_hits |-> AddHit(st.model_hits, model_version, 0)]
            ELSE [fault |-> "none",
                  model_hits |-> AddHit(st.model_hits, model_version,
                                        Hit(prediction.result, annotation_result))]

RECURSIVE EvalPredictions(_, _, _, _)
EvalPredictions(st, predictions, j, annotation_result) ==
    IF j > Len(predictions) \/ st.fault # "none" THEN st
    ELSE EvalPredictions(EvalPrediction(st, predictions[j], annotation_result),
                         predictions, j + 1, annotation_result)

\* the body of `for ls_task in json.loads(tasks)`
EvalTask(st, ls_task) ==
    IF "result" \notin DOMAIN ls_task THEN [st EXCEPT !.fault = "KeyError"]
    ELSE IF ls_task.result = <<>> THEN [st EXCEPT !.fault = "IndexError"]
    ELSE IF "value" \notin DOMAIN ls_task.result[1] THEN [st EXCEPT !.fault = "KeyError"]
    ELSE LET stripped == StripId(ls_task.result[1].value)
         IN IF stripped.fault # "none" THEN [st EXCEPT !.fault = stripped.fault]
            ELSE IF "predictions" \notin DOMAIN ls_task
                 THEN [st EXCEPT !.fault = "KeyError"]
                 ELSE EvalPredictions(st, ls_task.predictions, 1, stripped.value)

RECURSIVE EvalLoop(_, _, _)
EvalLoop(st, batch, i) ==
    IF i > Len(batch) \/ st.fault # "none" THEN st
    ELSE EvalLoop(EvalTask(st, batch[i]), batch, i + 1)

\* num_task = len(tasks), where tasks is the argument json.loads was given:
\* the serialized batch
NumTask(batch) == SerializedLen(batch)

\* the whole call: [fault, model_hits, model_acc]
EvaluateNerResult(batch) ==
    LET st == EvalLoop([fault |-> "none", model_hits |-> InitModelHits], batch, 1)
        num_task == NumTask(batch)
    IN IF st.fault # "none"
       THEN [fault |-> st.fault, model_hits |-> st.model_hits, model_acc |-> <<>>]
       ELSE IF DOMAIN st.model_hits # {} /\ num_task = 0
       THEN [fault |-> "ZeroDivisionError", model_hits |-> st.model_hits,
             model_acc |-> <<>>]
       ELSE [fault |-> "none", model_hits |-> st.model_hits,
             model_acc |-> [m \in DOMAIN st.model_hits |->
                               <<st.model_hits[m], num_task>>]]

(***************************************************************************)
(* format_tasks_for_train                                                  *)
(***************************************************************************)
\* for label in ent["value"]["labels"]: (start, end, label)
EntSpans(ent) ==
    [k \in DOMAIN ent.value.labels |->
        <<ent.value.start, ent.value.end, ent.value.labels[k]>>]

RECURSIVE SpansFrom(_, _)
\* for ent in ls_task["result"], from the k-th on
SpansFrom(result, k) ==
    IF k > Len(result) THEN <<>>
    ELSE EntSpans(result[k]) \o SpansFrom(result, k + 1)

Entities(ls_task) == SpansFrom(ls_task.result, 1)

\* a variant that would test the annotation list instead of the spans
KeepTask_Mut(ls_task, entities) == ls_task.result # <<>>

\* if entities != []
KeepTask(ls_task, entities) == entities # <<>>

\* the body of `for ls_task in json.loads(tasks)`
FormatTask(st, ls_task) ==
    LET entities == Entities(ls_task)
    IN IF ~KeepTask(ls_task, entities) THEN st
       ELSE IF "task" \notin DOMAIN ls_task THEN [st EXCEPT !.fault = "KeyError"]
       ELSE [st EXCEPT !.train_data =
                Append(@, <<ls_task.task.data.text, [entities |-> entities]>>)]

RECURSIVE FormatLoop(_, _, _)
FormatLoop(st, batch, i) ==
    IF i > Len(batch) \/ st.fault # "none" THEN st
    ELSE FormatLoop(FormatTask(st, batch[i]), batch, i + 1)

\* the whole call: [fault, train_data].  json.dumps writes each (text, dict)
\* tuple and each (start, end, label) tuple as an array, which json.loads in
\* train_model reads back as a list: both are sequences here.
FormatTasksForTrainResult(batch) ==
    FormatLoop([fault |-> "none", train_data |-> <<>>], batch, 1)

(***************************************************************************)
(* load_model                                                              *)
(***************************************************************************)
NoModel == [kind |-> "none"]
Pretrained(name) == [kind |-> "pretrained", name |-> name]
Custom(bucket, blob) == [kind |-> "custom", bucket |-> bucket, blob |-> blob]
\* a local name that was never assigned
Unbound == "<unbound>"

\* what the storage and the spacy installation answer: download_from_gcs
\* returns a list with the file, returns an empty list, or raises; spacy.load
\* finds the model or raises OSError
Envs == [download : {"file", "nothing", "error"}, loadable : BOOLEAN]

\* the if/else: [fault, nlp, model_name, lookups]
LoadBranch(lang, from_gcs, gcs_bucket, gcs_source_blob_name, env) ==
    IF from_gcs
    THEN IF env.download = "error"
         THEN [fault |-> "GcsError", nlp |-> NoModel, model_name |-> Unbound, lookups |-> 0]
         ELSE IF env.download = "nothing"
         THEN [fault |-> "IndexError", nlp |-> NoModel, model_name |-> Unbound, lookups |-> 0]
         ELSE IF ~env.loadable
         THEN [fault |-> "OSError", nlp |-> NoModel, model_name |-> Unbound, lookups |-> 0]
         ELSE [fault |-> "none", nlp |-> Custom(gcs_bucket, gcs_source_blob_name),
               model_name |-> Unbound, lookups |-> 0]
    ELSE IF lang \notin DOMAIN SPACY_MODEL
         THEN [fault |-> "KeyError", nlp |-> NoModel, model_name |-> Unbound, lookups |-> 1]
         ELSE [fault |-> "none", nlp |-> NoModel, model_name |-> SPACY_MODEL[lang],
               lookups |-> 1]

\* nlp = spacy.load(model_name); return nlp -- after the if/else, on both paths
LoadModelResult(lang, from_gcs, gcs_bucket, gcs_source_blob_name, env) ==
    LET b == LoadBranch(lang, from_gcs, gcs_bucket, gcs_source_blob_name, env)
    IN IF b.fault # "none" THEN b
       ELSE IF b.model_name = Unbound THEN [b EXCEPT !.fault = "UnboundLocalError"]
       ELSE IF ~env.loadable THEN [b EXCEPT !.fault = "OSError"]
       ELSE [b EXCEPT !.nlp = Pretrained(b.model_name)]

(***************************************************************************)
(* The state machine.  Each Flyte task can be invoked on its own; main is  *)
(* the workflow, one action per step of it.                                *)
(***************************************************************************)
NoArgs == [lang |-> "", from_gcs |-> FALSE, gcs_bucket |-> "",
           gcs_source_blob_name |-> "", env |-> [download |-> "file", loadable |-> TRUE]]

Init ==
    /\ op = "idle"
    /\ pc = "idle"
    /\ tasks = <<>>
    /\ args = NoArgs
    /\ model_hits = InitModelHits
    /\ model_acc = <<>>
    /\ train_data = <<>>
    /\ nlp = NoModel
    /\ lookups = 0
    /\ fault = "none"
    /\ calls = <<>>
    /\ iteration = 0
    /\ uploads = <<>>

Ended(f) == IF f = "none" THEN "done" ELSE "fault"

\* a call of evaluate_ner(tasks) on a serialized batch
EvaluateNer ==
    /\ pc = "idle"
    /\ \E batch \in Batches(EvalTasks) :
        LET r == EvaluateNerResult(batch)
        IN /\ tasks' = batch
           /\ model_hits' = r.model_hits
           /\ model_acc' = r.model_acc
           /\ fault' = r.fault
           /\ pc' = Ended(r.fault)
    /\ op' = "evaluate_ner"
    /\ UNCHANGED <<args, train_data, nlp, lookups, calls, iteration, uploads>>

\* a call of format_tasks_for_train(tasks) on a serialized batch
FormatTasksForTrain ==
    /\ pc = "idle"
    /\ \E batch \in Batches(FormatTasks) :
        LET r == FormatTasksForTrainResult(batch)
        IN /\ tasks' = batch
           /\ train_data' = r.train_data
           /\ fault' = r.fault
           /\ pc' = Ended(r.fault)
    /\ op' = "format_tasks_for_train"
    /\ UNCHANGED <<args, model_hits, model_acc, nlp, lookups, calls, iteration, uploads>>

\* a call of load_model(lang, from_gcs, gcs_bucket, gcs_source_blob_name)
LoadModel ==
    /\ pc = "idle"
    /\ \E lang \in {"en", "fr"}, from_gcs \in BOOLEAN,
          gcs_bucket \in {"", "wcgl_data"},
          gcs_source_blob_name \in {"", "spacy_model/models/dummy.pkl"},
          env \in Envs :
        LET r == LoadModelResult(lang, from_gcs, gcs_bucket, gcs_source_blob_name, env)
        IN /\ args' = [lang |-> lang, from_gcs |-> from_gcs, gcs_bucket |-> gcs_bucket,
                       gcs_source_blob_name |-> gcs_source_blob_name, env |-> env]
           /\ nlp' = r.nlp
           /\ lookups' = r.lookups
           /\ fault' = r.fault
           /\ pc' = Ended(r.fault)
    /\ op' = "load_model"
    /\ UNCHANGED <<tasks, model_hits, model_acc, train_data, calls, iteration, uploads>>

(***************************************************************************)
(* main -> load_tasks -> train_model_if_necessary -> format_tasks_for_train*)
(* -> load_model -> train_model                                            *)
(***************************************************************************)
\* a step of main that raised: nothing catches it
Raise(step, error) ==
    /\ pc' = "fault"
    /\ fault' = error
    /\ calls' = Append(calls, step)

\* config = load_config("train")
MainLoadConfig ==
    /\ pc = "idle"
    /\ op' = "main"
    /\ \E ok \in BOOLEAN :
        IF ok THEN /\ pc' = "load_tasks"
                   /\ calls' = Append(calls, "load_config")
                   /\ fault' = fault
              ELSE Raise("load_config", "ConfigError")
    /\ UNCHANGED <<tasks, args, model_hits, model_acc, train_data, nlp, lookups,
                   iteration, uploads>>

\* tasks = load_tasks(bucket_name=..., source_blob_name=...)
MainLoadTasks ==
    /\ pc = "load_tasks"
    /\ \/ \E batch \in Batches(MainTasks) :
            /\ tasks' = batch
            /\ pc' = "gate"
            /\ calls' = Append(calls, "load_tasks")
            /\ fault' = fault
       \/ /\ Raise("load_tasks", "GcsError")
          /\ tasks' = tasks
    /\ UNCHANGED <<op, args, model_hits, model_acc, train_data, nlp, lookups,
                   iteration, uploads>>

\* metrics_dict = {"dummy": 0.5}; model_name = "dummy"
metrics_dict == [dummy |-> <<1, 2>>]
model_name == "dummy"

\* metrics_dict[model_name] >= THRESHOLD_ACCURACY
MeetsThreshold(acc) == acc[1] * ThresholdDen >= ThresholdNum * acc[2]

\* train_model_if_necessary(tasks): the branch
TrainModelIfNecessary ==
    /\ pc = "gate"
    /\ pc' = IF MeetsThreshold(metrics_dict[model_name]) THEN "done" ELSE "format"
    /\ calls' = Append(calls, "train_model_if_necessary")
    /\ UNCHANGED <<op, tasks, args, model_hits, model_acc, train_data, nlp, lookups,
                   fault, iteration, uploads>>

\* train_data = format_tasks_for_train(tasks=tasks)
MainFormat ==
    /\ pc = "format"
    /\ LET r == FormatTasksForTrainResult(tasks)
       IN IF r.fault = "none"
          THEN /\ train_data' = r.train_data
               /\ pc' = "load_model"
               /\ calls' = Append(calls, "format_tasks_for_train")
               /\ fault' = fault
          ELSE /\ Raise("format_tasks_for_train", r.fault)
               /\ train_data' = train_data
    /\ UNCHANGED <<op, tasks, args, model_hits, model_acc, nlp, lookups, iteration,
                   uploads>>

\* nlp = load_model(lang="en", from_gcs=False, gcs_bucket="", gcs_source_blob_name="")
MainLoadModel ==
    /\ pc = "load_model"
    /\ \E env \in Envs :
        LET r == LoadModelResult("en", FALSE, "", "", env)
        IN IF r.fault = "none"
           THEN /\ nlp' = r.nlp
                /\ lookups' = lookups + r.lookups
                /\ pc' = "train_model"
                /\ calls' = Append(calls, "load_model")
                /\ fault' = fault
           ELSE /\ Raise("load_model", r.fault)
                /\ lookups' = lookups + r.lookups
                /\ nlp' = nlp
    /\ UNCHANGED <<op, tasks, args, model_hits, model_acc, train_data, iteration,
                   uploads>>

\* train_model, up to the loop: json.loads, get_pipe("ner"), add_label,
\* disable_pipes, the optimizer
TrainModelBegin ==
    /\ pc = "train_model"
    /\ \E ok \in BOOLEAN :
        IF ok THEN /\ pc' = "train_loop"
                   /\ calls' = Append(calls, "train_model")
                   /\ fault' = fault
              ELSE Raise("train_model", "KeyError")
    /\ iteration' = 0
    /\ UNCHANGED <<op, tasks, args, model_hits, model_acc, train_data, nlp, lookups,
                   uploads>>

\* one pass of `for iteration in range(training_iterations)`: shuffle,
\* minibatch, nlp.update on every example (which may raise when there is one)
TrainIteration ==
    /\ pc = "train_loop"
    /\ iteration < TrainingIterations
    /\ \E ok \in (IF train_data = <<>> THEN {TRUE} ELSE BOOLEAN) :
        IF ok THEN /\ iteration' = iteration + 1
                   /\ UNCHANGED <<pc, fault>>
              ELSE /\ pc' = "fault"
                   /\ fault' = "ValueError"
                   /\ iteration' = iteration
    /\ UNCHANGED <<op, tasks, args, model_hits, model_acc, train_data, nlp, lookups,
                   calls, uploads>>

\* a variant that would upload from inside the loop
UploadDue_Mut(n) == n >= 1

\* the statement after the loop is reached when range(training_iterations)
\* is exhausted
UploadDue(n) == n = TrainingIterations

\* upload_to_gcs("wcgl_data", "spacy_model/models/dummy.pkl", pickle.dumps(nlp));
\* return nlp
TrainUpload ==
    /\ pc = "train_loop"
    /\ UploadDue(iteration)
    /\ \E ok \in BOOLEAN :
        IF ok THEN /\ uploads' = Append(uploads,
                        [bucket |-> "wcgl_data", blob |-> "spacy_model/models/dummy.pkl",
                         model |-> nlp, trained_on |-> train_data,
                         iterations |-> iteration])
                   /\ pc' = "done"
                   /\ calls' = Append(calls, "upload_to_gcs")
                   /\ fault' = fault
              ELSE /\ Raise("upload_to_gcs", "GcsError")
                   /\ uploads' = uploads
    /\ UNCHANGED <<op, tasks, args, model_hits, model_acc, train_data, nlp, lookups,
                   iteration>>

Next ==
    \/ EvaluateNer
    \/ FormatTasksForTrain
    \/ LoadModel
    \/ MainLoadConfig
    \/ MainLoadTasks
    \/ TrainModelIfNecessary
    \/ MainFormat
    \/ MainLoadModel
    \/ TrainModelBegin
    \/ TrainIteration
    \/ TrainUpload

Spec == Init /\ [][Next]_vars

(***************************************************************************)
(* Properties.                                                             *)
(***************************************************************************)
EvalDone == op = "evaluate_ner" /\ pc = "done"
EvalEnded == op = "evaluate_ner" /\ pc \in {"done", "fault"}

\* the predictions of model m, over the whole batch, that carry a payload equal
\* to the task's accepted annotation without its "id" field
\* the places <<task, prediction>> of a batch
PredictionPlaces(batch) ==
    UNION { {t} \X DOMAIN batch[t].predictions : t \in DOMAIN batch }

\* the model identifiers that occur in some task's predictions list
ModelsIn(batch) ==
    { batch[p[1]].predictions[p[2]].model_version : p \in PredictionPlaces(batch) }

MatchingPredictions(batch, m) ==
    { p \in PredictionPlaces(batch) :
        LET ls_task == batch[p[1]]
            prediction == ls_task.predictions[p[2]]
        IN /\ prediction.model_version = m
           /\ "result" \in DOMAIN prediction
           /\ ls_task.result # <<>>
           /\ prediction.result = PopId(ls_task.result[1].value) }

\* C1: for a non-empty batch, the accuracy evaluate_ner returns for each model
\* is the model's hit count divided by the number of tasks of the batch.
C1_AccuracyIsHitsOverTaskCount ==
    (EvalDone /\ tasks # <<>>) =>
        \A m \in DOMAIN model_acc :
            /\ model_acc[m][2] > 0
            /\ model_acc[m][1] * Len(tasks) = model_hits[m] * model_acc[m][2]

\* C2: for a non-empty batch, every model's hit count is at most the number of
\* tasks and its accuracy lies in [0, 1], whatever the predictions lists hold.
C2_HitsAtMostTasks ==
    (EvalDone /\ tasks # <<>>) =>
        \A m \in DOMAIN model_hits :
            /\ model_hits[m] <= Len(tasks)
            /\ 0 <= model_acc[m][1]
            /\ model_acc[m][1] <= model_acc[m][2]

\* the accuracy the evaluator's contract gives the designated model on a
\* batch: its hits over the number of tasks
DesignatedAccuracy(batch) ==
    <<EvaluateNerResult(batch).model_hits[model_name], Len(batch)>>

Evaluable(batch) ==
    /\ batch # <<>>
    /\ EvaluateNerResult(batch).fault = "none"
    /\ model_name \in DOMAIN EvaluateNerResult(batch).model_hits

Range(seq) == { seq[k] : k \in DOMAIN seq }

\* C3: when the designated model's accuracy on the given tasks meets the
\* threshold, the gate invokes neither the formatter, nor load_model, nor
\* train_model, and persists nothing.
C3_GateSkipsWhenAccurate ==
    (/\ op = "main"
     /\ "train_model_if_necessary" \in Range(calls)
     /\ Evaluable(tasks)
     /\ MeetsThreshold(DesignatedAccuracy(tasks))) =>
        /\ Range(calls) \cap {"format_tasks_for_train", "load_model", "train_model",
                              "upload_to_gcs"} = {}
        /\ uploads = <<>>

\* C3, the other branch: below the threshold a completed run went through the
\* formatter and train_model once each, with 30 iterations.
C3_GateTrainsWhenInaccurate ==
    (/\ op = "main"
     /\ pc = "done"
     /\ Evaluable(tasks)
     /\ ~MeetsThreshold(DesignatedAccuracy(tasks))) =>
        /\ Cardinality({k \in DOMAIN calls : calls[k] = "format_tasks_for_train"}) = 1
        /\ Cardinality({k \in DOMAIN calls : calls[k] = "train_model"}) = 1
        /\ iteration = TrainingIterations

\* C4: the keys of evaluate_ner's result are exactly the models that occur in
\* some task's predictions; one that occurs and never matches has accuracy 0.
C4_KeysAreModelsSeen ==
    EvalDone =>
        /\ DOMAIN model_acc = ModelsIn(tasks)
        /\ \A m \in DOMAIN model_acc :
            MatchingPredictions(tasks, m) = {} =>
                (model_acc[m][1] = 0 /\ model_acc[m][2] # 0)

\* C4 witness: a returned mapping in which "dummy" occurred without a match
\* (accuracy 0) and "m1" never occurred (no key)
C4_Witness ==
    /\ EvalDone
    /\ "dummy" \in DOMAIN model_acc
    /\ model_acc["dummy"][1] = 0
    /\ "m1" \notin DOMAIN model_acc
    /\ tasks # <<>>

FormatDone == op = "format_tasks_for_train" /\ pc = "done"

HasAcceptedSpan(t) == \E k \in DOMAIN t.result : t.result[k].value.labels # <<>>

\* the (annotation, label) places of a task, and how many come before one
SpanPlaces(t) == UNION { {k} \X DOMAIN t.result[k].value.labels : k \in DOMAIN t.result }
PlaceRank(t, p) ==
    Cardinality({ q \in SpanPlaces(t) : q[1] < p[1] \/ (q[1] = p[1] /\ q[2] <= p[2]) })

\* spans is the list of the task's accepted spans, unchanged and in order
IsAcceptedSpans(spans, t) ==
    /\ Len(spans) = Cardinality(SpanPlaces(t))
    /\ \A p \in SpanPlaces(t) :
        spans[PlaceRank(t, p)] =
            <<t.result[p[1]].value.start, t.result[p[1]].value.end,
              t.result[p[1]].value.labels[p[2]]>>

\* C5: format_tasks_for_train returns exactly the tasks with at least one
\* accepted span, in input order, each as (text, spans) with the spans unchanged.
C5_FormatKeepsExactlySpanned ==
    FormatDone =>
        LET kept == SelectSeq(tasks, HasAcceptedSpan)
        IN /\ Len(train_data) = Len(kept)
           /\ \A k \in DOMAIN kept :
                /\ train_data[k][1] = kept[k].task.data.text
                /\ IsAcceptedSpans(train_data[k][2].entities, kept[k])

\* C5 witness: a batch of which one task was dropped although it has an
\* annotation (without labels) and one was kept with several spans
C5_Witness ==
    /\ FormatDone
    /\ Len(tasks) = 2
    /\ Len(train_data) = 1
    /\ Len(train_data[1][2].entities) >= 2
    /\ \E k \in DOMAIN tasks : tasks[k].result # <<>> /\ ~HasAcceptedSpan(tasks[k])

\* C6: for a task whose accepted annotation carries "id", evaluate_ner strips
\* it, completes normally, and counts a prediction equal to the annotation
\* without "id" as a hit.
C6_IdStrippedAndCounted ==
    (/\ EvalEnded
     /\ \E i \in DOMAIN tasks :
            tasks[i].result # <<>> /\ "id" \in DOMAIN tasks[i].result[1].value
     /\ \A i \in DOMAIN tasks :
            /\ tasks[i].result # <<>>
            /\ \A j \in DOMAIN tasks[i].predictions :
                    "result" \in DOMAIN tasks[i].predictions[j]) =>
        /\ fault = "none"
        /\ \A m \in ModelsIn(tasks) :
            m \in DOMAIN model_hits
            /\ model_hits[m] = Cardinality(MatchingPredictions(tasks, m))

\* C7: a prediction whose payload is mismatched or missing is a miss, not an
\* error: the counter is unchanged, the model has an entry, and the call
\* goes on and returns a mapping.
C7_MissingPayloadIsAMiss ==
    (/\ EvalEnded
     /\ \A i \in DOMAIN tasks :
            tasks[i].result # <<>> /\ "id" \notin DOMAIN tasks[i].result[1].value) =>
        /\ fault = "none"
        /\ DOMAIN model_acc = ModelsIn(tasks)
        /\ \A m \in ModelsIn(tasks) :
            m \in DOMAIN model_hits
            /\ model_hits[m] = Cardinality(MatchingPredictions(tasks, m))

\* C8 as stated: evaluate_ner on an empty batch ends in a division by zero.
C8_EmptyBatchDividesByZero ==
    (EvalEnded /\ tasks = <<>>) => fault = "ZeroDivisionError"

\* C8 as amended: evaluate_ner on an empty batch divides nothing and returns
\* an empty mapping.
C8_EmptyBatchReturnsEmptyMapping ==
    (EvalEnded /\ tasks = <<>>) =>
        /\ pc = "done"
        /\ fault = "none"
        /\ DOMAIN model_acc = {}

\* C8 witness: the call on the empty batch has ended
C8_Witness == EvalEnded /\ tasks = <<>> /\ SerializedLen(tasks) = 2

MainOrder ==
    <<"load_config", "load_tasks", "train_model_if_necessary",
      "format_tasks_for_train", "load_model", "train_model", "upload_to_gcs">>

IsPrefix(s, t) == Len(s) <= Len(t) /\ \A k \in DOMAIN s : s[k] = t[k]

\* C9: in a run of main the artifact is uploaded at most once, and only after
\* load_tasks, format_tasks_for_train, load_model and all training iterations
\* completed in that order without a fault; after a fault no step runs, none
\* is retried, and nothing is uploaded.
C9_UploadOnceAfterAllSteps ==
    op = "main" =>
        /\ IsPrefix(calls, MainOrder)
        /\ Len(uploads) <= 1
        /\ uploads # <<>> =>
            /\ calls = MainOrder
            /\ fault = "none"
            /\ iteration = TrainingIterations
            /\ uploads[1].iterations = TrainingIterations
            /\ uploads[1].model = nlp
            /\ uploads[1].trained_on = FormatTasksForTrainResult(tasks).train_data
        /\ fault # "none" =>
            /\ pc = "fault"
            /\ uploads = <<>>
            /\ ~ENABLED Next

\* C9 witness: a run of main that uploaded the artifact
C9_Witness ==
    /\ op = "main"
    /\ pc = "done"
    /\ Len(uploads) = 1
    /\ train_data # <<>>

LoadEnded == op = "load_model" /\ pc \in {"done", "fault"}

\* C10: load_model returns the custom model of (gcs_bucket,
\* gcs_source_blob_name) when from_gcs, without the language lookup and
\* without a fault; otherwise the pretrained model of the language, or a
\* lookup miss for an unsupported language.
C10_LoadsFromGcsOrLanguage ==
    (LoadEnded /\ args.env.download = "file" /\ args.env.loadable) =>
        IF args.from_gcs
        THEN /\ fault = "none"
             /\ nlp = Custom(args.gcs_bucket, args.gcs_source_blob_name)
             /\ lookups = 0
        ELSE IF args.lang \in DOMAIN SPACY_MODEL
             THEN fault = "none" /\ nlp = Pretrained(SPACY_MODEL[args.lang])
             ELSE fault = "KeyError"

====
